---- MODULE Spec2Model ----
(***************************************************************************)
(* Model of parso/pgen2/pgen.py: generate_grammar and its helpers          *)
(* (_make_dfas, _simplify_dfas, the classifier loop, _make_transition,     *)
(* _calculate_tree_traversal, _calculate_first_plans).                     *)
(*                                                                         *)
(* A label is a Python str, modelled as the sequence of its characters.    *)
(* A DFAState object is its index in heap (object identity = index); a     *)
(* ReservedString object is its index in rs_objs.  A Python dict whose     *)
(* iteration order matters (DFAState.arcs, nonterminal_arcs) is a sequence *)
(* of <<key, value>> pairs in insertion order; the other dicts are         *)
(* functions.                                                              *)
(***************************************************************************)
EXTENDS Integers, Sequences, FiniteSets, TLC

\* ------------------------------------------------------------------ bounds

\* Most arcs of one rule's NFA in the single-rule grammars of InitDfa.
MaxArcs == 3
\* Longest label sequence the language comparisons walk.
MaxWord == 4
\* Most rules and NFA arcs, counted together, of a grammar of Init.
MaxSize == 7
\* Most NFA arcs of a four-rule grammar of InitAlt.
MaxAltArcs == 6
\* Most rules and NFA arcs, counted together, of a grammar of InitTwice.
MaxTwiceSize == 6
\* Most items of the right-hand side of a grammar of InitSeq.
MaxSeq == 3
\* Most arcs of the NFA in the single-rule grammars of InitDfaFair.
MaxFairArcs == 2

\* ------------------------------------------------------------ str helpers

\* The characters c of the model's alphabet with c.isalpha().
Alpha == {"a", "b", "c", "d", "N"}

\* Code-point order of the characters used in rule names.
CharRank == [c \in {"N", "a", "b", "c", "d"} |->
               CASE c = "N" -> 78 [] c = "a" -> 97 [] c = "b" -> 98 [] c = "c" -> 99
                 [] c = "d" -> 100]

\* Python's str < str: lexicographic by code point.
RECURSIVE StrLess(_, _)
StrLess(s, t) ==
    IF t = <<>> THEN FALSE
    ELSE IF s = <<>> THEN TRUE
    ELSE IF CharRank[Head(s)] # CharRank[Head(t)]
         THEN CharRank[Head(s)] < CharRank[Head(t)]
         ELSE StrLess(Tail(s), Tail(t))

\* list.sort() on a list of distinct strings, given as a set.
RECURSIVE SortedSeq(_)
SortedSeq(S) ==
    IF S = {} THEN <<>>
    ELSE LET m == CHOOSE x \in S : \A y \in S \ {x} : StrLess(x, y)
         IN  <<m>> \o SortedSeq(S \ {m})

\* nfa_arc.nonterminal_or_string of an epsilon arc.
None == <<>>

\* The labels of the grammars: rule names, quoted literals, a token name.
RuleA == <<"a">>
RuleB == <<"b">>
RuleC == <<"c">>
RuleD == <<"d">>
LitX  == <<"'", "x", "'">>
LitXd == <<"\"", "x", "\"">>
LitY  == <<"'", "y", "'">>
TokN  == <<"N">>

\* token_namespace: getattr(token_namespace, label) for the token names.
TokenNamespace == [l \in {TokN} |-> 1]

\* The elements of a list.
Range(seq) == {seq[n] : n \in 1..Len(seq)}

\* All orders in which a set can be iterated.
Perms(S) ==
    {p \in [1..Cardinality(S) -> S] : \A i, j \in 1..Cardinality(S) : p[i] = p[j] => i = j}

\* ----------------------------------------------------------- _make_dfas

\* NFA of one rule: states 1..n, start state 1, arcs <<from, label, to>>.
NfaArcsFrom(nfa, s) == {a \in nfa.arcs : a[1] = s}

\* addclosure(nfa_state, base_nfa_set), returning the set it leaves.
\* addclosure without lines 142-144: the state alone, no epsilon arc followed.
addclosure_unfollowed(nfa, s, base) == base \cup {s}

RECURSIVE addclosure(_, _, _)
RECURSIVE AddClosureAll(_, _, _)
addclosure(nfa, s, base) ==
    IF s \in base THEN base
    ELSE AddClosureAll(nfa,
                       {a[3] : a \in {x \in NfaArcsFrom(nfa, s) : x[2] = None}},
                       base \cup {s})
AddClosureAll(nfa, todo, base) ==
    IF todo = {} THEN base
    ELSE LET t == CHOOSE t \in todo : TRUE
         IN  AddClosureAll(nfa, todo \ {t}, addclosure(nfa, t, base))

\* The NFA states on which line 141 ran, in order, while addclosure filled
\* one set: r is [set, visited], the set and the states added so far.
RECURSIVE addclosure_visits(_, _, _)
RECURSIVE AddClosureVisitsAll(_, _, _)
addclosure_visits(nfa, s, r) ==
    IF s \in r.set THEN r
    ELSE AddClosureVisitsAll(nfa,
                             {a[3] : a \in {x \in NfaArcsFrom(nfa, s) : x[2] = None}},
                             [set |-> r.set \cup {s}, visited |-> Append(r.visited, s)])
AddClosureVisitsAll(nfa, todo, r) ==
    IF todo = {} THEN r
    ELSE LET t == CHOOSE t \in todo : TRUE
         IN  AddClosureVisitsAll(nfa, todo \ {t}, addclosure_visits(nfa, t, r))

\* DFAState.__init__
NewDFAState(from_rule, nfa_set, final) ==
    [from_rule |-> from_rule, nfa_set |-> nfa_set, is_final |-> final \in nfa_set,
     arcs |-> <<>>, ilabel_to_plan |-> <<>>, nonterminal_arcs |-> <<>>]

\* The labels of the arcs dict a state's loop body builds (lines 150-156).
StateLabels(nfa, nfa_set) ==
    {a[2] : a \in {x \in nfa.arcs : x[1] \in nfa_set /\ x[2] # None}}

\* Lines 152-156 keeping the closure of one target under label only.
LabelTargetOfOne(nfa, nfa_set, label) ==
    LET targets == {a[3] : a \in {x \in nfa.arcs : x[1] \in nfa_set /\ x[2] = label}}
    IN  addclosure(nfa, CHOOSE t \in targets : \A u \in targets : t <= u, {})

\* arcs[label] after lines 152-156: the closures of all targets under label.
LabelTarget(nfa, nfa_set, label) ==
    AddClosureAll(nfa,
                  {a[3] : a \in {x \in nfa.arcs : x[1] \in nfa_set /\ x[2] = label}},
                  {})

\* DFAState.add_arc
add_arc(state, next_, label) ==
    [state EXCEPT !.arcs = Append(@, <<label, next_>>)]

\* Lines 161-170 with the else branch taken for every label: no state of
\* the list is reused.
RECURSIVE MakeDfasArcsAlwaysNew(_, _, _, _, _)
MakeDfasArcsAlwaysNew(nfa, hp, sts, sid, ord) ==
    IF ord = <<>> THEN [heap |-> hp, states |-> sts]
    ELSE LET label   == Head(ord)
             nfa_set == LabelTarget(nfa, hp[sid].nfa_set, label)
             nested  == Len(hp) + 1
             hp1     == Append(hp, NewDFAState(nfa.from_rule, nfa_set, nfa.finish))
             sts1    == Append(sts, nested)
             hp2     == [hp1 EXCEPT ![sid] = add_arc(@, nested, label)]
         IN  MakeDfasArcsAlwaysNew(nfa, hp2, sts1, sid, Tail(ord))

\* Lines 161-170 for the labels in the order ord the arcs dict yields them:
\* reuse the state of the list with an equal nfa_set, or append a new one.
RECURSIVE MakeDfasArcs(_, _, _, _, _)
MakeDfasArcs(nfa, hp, sts, sid, ord) ==
    IF ord = <<>> THEN [heap |-> hp, states |-> sts]
    ELSE LET label   == Head(ord)
             nfa_set == LabelTarget(nfa, hp[sid].nfa_set, label)
             found   == {k \in 1..Len(sts) : hp[sts[k]].nfa_set = nfa_set}
             nested  == IF found # {}
                        THEN sts[CHOOSE k \in found : \A m \in found : k <= m]
                        ELSE Len(hp) + 1
             hp1     == IF found # {} THEN hp
                        ELSE Append(hp, NewDFAState(nfa.from_rule, nfa_set, nfa.finish))
             sts1    == IF found # {} THEN sts ELSE Append(sts, nested)
             hp2     == [hp1 EXCEPT ![sid] = add_arc(@, nested, label)]
         IN  MakeDfasArcs(nfa, hp2, sts1, sid, Tail(ord))

\* -------------------------------------------------------- _simplify_dfas

\* dict.get(label) on an arcs dict: the target, or 0 for Python's None.
ArcsGet(arcs, label) ==
    LET hit == {n \in 1..Len(arcs) : arcs[n][1] = label}
    IN  IF hit = {} THEN 0 ELSE arcs[CHOOSE n \in hit : TRUE][2]

\* DFAState.__eq__ without the is_final test.
DFAStateEqArcsOnly(self, other) ==
    /\ Len(self.arcs) = Len(other.arcs)
    /\ \A n \in 1..Len(self.arcs) :
          self.arcs[n][2] = ArcsGet(other.arcs, self.arcs[n][1])

\* DFAState.__eq__: same is_final, same number of arcs, and every label of
\* self leads to the identical object in other.
DFAStateEq(self, other) ==
    /\ self.is_final = other.is_final
    /\ Len(self.arcs) = Len(other.arcs)
    /\ \A n \in 1..Len(self.arcs) :
          self.arcs[n][2] = ArcsGet(other.arcs, self.arcs[n][1])

\* DFAState.unifystate
unifystate(state, old, new) ==
    [state EXCEPT !.arcs =
        [n \in 1..Len(@) |-> IF @[n][2] = old THEN <<@[n][1], new>> ELSE @[n]]]

\* del dfas[j]
DelAt(seq, j) == SubSeq(seq, 1, j - 1) \o SubSeq(seq, j + 1, Len(seq))

\* The first j of range(i + 1, len(dfas)) with state_i == dfas[j], or 0.
FirstEqual(hp, dfas, ii) ==
    LET hit == {j \in (ii + 1)..Len(dfas) : DFAStateEq(hp[dfas[ii]], hp[dfas[j]])}
    IN  IF hit = {} THEN 0 ELSE CHOOSE j \in hit : \A m \in hit : j <= m

\* Lines 120-122 with the roles of i and j swapped: "del dfas[i]".
MergeIntoLater(hp, dfas, ii, j) ==
    LET rest == DelAt(dfas, ii)
        live == {rest[n] : n \in 1..Len(rest)}
    IN  [heap |-> [id \in 1..Len(hp) |->
                      IF id \in live THEN unifystate(hp[id], dfas[ii], dfas[j])
                      ELSE hp[id]],
         dfas |-> rest]

\* Lines 120-122: delete dfas[j] and retarget the arcs of the states left.
MergeInto(hp, dfas, ii, j) ==
    LET rest == DelAt(dfas, j)
        live == {rest[n] : n \in 1..Len(rest)}
    IN  [heap |-> [id \in 1..Len(hp) |->
                      IF id \in live THEN unifystate(hp[id], dfas[j], dfas[ii])
                      ELSE hp[id]],
         dfas |-> rest]

\* ------------------------------------------------------- _make_transition

\* d[key] = value on a dict modelled as a function.
DictSet(d, key, value) ==
    IF key \in DOMAIN d THEN [d EXCEPT ![key] = value] ELSE d @@ (key :> value)

\* ast.literal_eval on a quoted literal without escapes: the text between
\* the quotes.
literal_eval(label) == SubSeq(label, 2, Len(label) - 1)

\* _make_transition creating a ReservedString at every call (lines 252-254
\* without the try).
make_transition_uninterned(rs, objs, label) ==
    IF label[1] \in Alpha
    THEN [key |-> <<"tok", TokenNamespace[label]>>, rs |-> rs, objs |-> objs]
    ELSE LET value == literal_eval(label)
         IN  [key  |-> <<"rs", Len(objs) + 1>>,
              rs   |-> DictSet(rs, value, Len(objs) + 1),
              objs |-> Append(objs, value)]

\* _make_transition: the transition key of a terminal label, with the
\* reserved-string table and the ReservedString objects it leaves.  A key is
\* <<"tok", token type>> or <<"rs", ReservedString object>>.
make_transition(rs, objs, label) ==
    IF label[1] \in Alpha
    THEN [key |-> <<"tok", TokenNamespace[label]>>, rs |-> rs, objs |-> objs]
    ELSE LET value == literal_eval(label)
         IN  IF value \in DOMAIN rs
             THEN [key |-> <<"rs", rs[value]>>, rs |-> rs, objs |-> objs]
             ELSE [key  |-> <<"rs", Len(objs) + 1>>,
                   rs   |-> rs @@ (value :> Len(objs) + 1),
                   objs |-> Append(objs, value)]

\* DFAPlan.__init__ with next_dfa put on dfa_pushes.
DFAPlanPushingNext(next_dfa, dfa_pushes) ==
    [next_dfa |-> next_dfa, dfa_pushes |-> <<next_dfa>> \o dfa_pushes]

\* DFAPlan.__init__
DFAPlan(next_dfa, dfa_pushes) == [next_dfa |-> next_dfa, dfa_pushes |-> dfa_pushes]

\* ------------------------------------------------------------------ state

VARIABLES
    bnf,                \* GrammarParser(bnf_grammar).parse(): the rules' NFAs, in order
    pc,                 \* where generate_grammar is
    cur,                \* index in bnf of the rule of the loop at line 210
    heap,               \* the DFAState objects, by identity
    states,             \* _make_dfas' states, then _simplify_dfas' dfas
    k,                  \* position of "for state in states" (line 149)
    i,                  \* position of "for i, state_i in enumerate(dfas)"; 0: at the while test
    changes,            \* _simplify_dfas' changes
    made,               \* history: heap and list as _make_dfas returned them
    rule_to_dfas,       \* generate_grammar's rule_to_dfas
    start_nonterminal,  \* generate_grammar's start_nonterminal, None until set
    reserved_strings,   \* generate_grammar's reserved_strings: value -> object
    rs_objs,            \* the ReservedString objects, by identity: their values
    first_plans,        \* _calculate_tree_traversal's first_plans
    stack,              \* the active calls of _calculate_first_plans, innermost last
    d,                  \* position of "for nonterminal in nonterminals" (line 264)
    sp,                 \* position of the second pass (lines 271-275)
    err,                \* the ValueError raised, if any
    grammar,            \* the Grammar returned, if any
    run1                \* history: the outcome of an earlier compilation of bnf

vars == <<bnf, pc, cur, heap, states, k, i, changes, made, rule_to_dfas,
          start_nonterminal, reserved_strings, rs_objs, first_plans, stack,
          d, sp, err, grammar, run1>>

inputVars == <<bnf, run1>>
dfaVars   == <<heap, states, k, i, changes, made>>
tableVars == <<rule_to_dfas, start_nonterminal>>
rsVars    == <<reserved_strings, rs_objs>>
fpVars    == <<first_plans, stack, d>>

NoErr     == [kind |-> "none"]
NoGrammar == [returned |-> FALSE]
NoRun     == [ended |-> FALSE]

\* The state generate_grammar starts in, for the parsed rules rules.
Start(rules) ==
    /\ bnf = rules
    /\ run1 = NoRun
    /\ pc = "rule"
    /\ cur = 1
    /\ heap = <<>>
    /\ states = <<>>
    /\ k = 0
    /\ i = 0
    /\ changes = FALSE
    /\ made = [heap |-> <<>>, dfas |-> <<>>]
    /\ rule_to_dfas = <<>>
    /\ start_nonterminal = None
    /\ reserved_strings = <<>>
    /\ rs_objs = <<>>
    /\ first_plans = <<>>
    /\ stack = <<>>
    /\ d = 0
    /\ sp = 0
    /\ err = NoErr
    /\ grammar = NoGrammar

\* ------------------------------------------- generate_grammar, lines 210-221

\* _make_dfas, lines 146-148: the closure of start is the first state.
MakeDfasBegin ==
    /\ pc = "rule"
    /\ cur <= Len(bnf)
    /\ LET nfa == bnf[cur]
           base_nfa_set == addclosure(nfa, 1, {})
       IN  /\ heap' = Append(heap, NewDFAState(nfa.from_rule, base_nfa_set, nfa.finish))
           /\ states' = <<Len(heap) + 1>>
    /\ k' = 1
    /\ pc' = "make"
    /\ UNCHANGED <<inputVars, cur, i, changes, made, tableVars, rsVars, fpVars, sp, err, grammar>>

\* _make_dfas, one turn of "for state in states" (lines 149-170); the arcs
\* dict yields its labels in the order the nfa_set was iterated.
MakeDfasStep ==
    /\ pc = "make"
    /\ k <= Len(states)
    /\ \E ord \in Perms(StateLabels(bnf[cur], heap[states[k]].nfa_set)) :
          LET r == MakeDfasArcs(bnf[cur], heap, states, states[k], ord)
          IN  /\ heap' = r.heap
              /\ states' = r.states
    /\ k' = k + 1
    /\ UNCHANGED <<inputVars, pc, cur, i, changes, made, tableVars, rsVars, fpVars, sp, err, grammar>>

\* _make_dfas returns (line 171); _simplify_dfas starts (line 112).
MakeDfasReturn ==
    /\ pc = "make"
    /\ k > Len(states)
    /\ made' = [heap |-> heap, dfas |-> states]
    /\ changes' = TRUE
    /\ i' = 0
    /\ pc' = "simplify"
    /\ UNCHANGED <<inputVars, cur, heap, states, k, tableVars, rsVars, fpVars, sp, err, grammar>>

\* _simplify_dfas, "while changes: changes = False" (lines 113-114).
SimplifyPass ==
    /\ pc = "simplify"
    /\ i = 0
    /\ changes
    /\ changes' = FALSE
    /\ i' = 1
    /\ UNCHANGED <<inputVars, pc, cur, heap, states, k, made, tableVars, rsVars, fpVars, sp, err, grammar>>

\* Lines 115-124 with changes set in every turn, merge or not.
SimplifyBodyEverChanging(hp, dfas, ii, ch) ==
    LET j == FirstEqual(hp, dfas, ii)
        m == IF j = 0 THEN [heap |-> hp, dfas |-> dfas] ELSE MergeInto(hp, dfas, ii, j)
    IN  [heap |-> m.heap, dfas |-> m.dfas,
         changes |-> TRUE,
         i |-> IF ii + 1 > Len(m.dfas) THEN 0 ELSE ii + 1]

\* Lines 115-124 without line 123: a merge does not set changes.
SimplifyBodyUnflagged(hp, dfas, ii, ch) ==
    LET j == FirstEqual(hp, dfas, ii)
        m == IF j = 0 THEN [heap |-> hp, dfas |-> dfas] ELSE MergeInto(hp, dfas, ii, j)
    IN  [heap |-> m.heap, dfas |-> m.dfas,
         changes |-> ch,
         i |-> IF ii + 1 > Len(m.dfas) THEN 0 ELSE ii + 1]

\* One turn of "for i, state_i in enumerate(dfas)" (lines 115-124) and the
\* list iterator's test for the next turn.
SimplifyBody(hp, dfas, ii, ch) ==
    LET j == FirstEqual(hp, dfas, ii)
        m == IF j = 0 THEN [heap |-> hp, dfas |-> dfas] ELSE MergeInto(hp, dfas, ii, j)
    IN  [heap |-> m.heap, dfas |-> m.dfas,
         changes |-> (ch \/ j # 0),
         i |-> IF ii + 1 > Len(m.dfas) THEN 0 ELSE ii + 1]

SimplifyStep ==
    /\ pc = "simplify"
    /\ i >= 1
    /\ LET r == SimplifyBody(heap, states, i, changes)
       IN  /\ heap' = r.heap
           /\ states' = r.dfas
           /\ changes' = r.changes
           /\ i' = r.i
    /\ UNCHANGED <<inputVars, pc, cur, k, made, tableVars, rsVars, fpVars, sp, err, grammar>>

\* _simplify_dfas returns; lines 217-221 store the list; the loop goes on.
SimplifyReturn ==
    /\ pc = "simplify"
    /\ i = 0
    /\ ~changes
    /\ rule_to_dfas' = DictSet(rule_to_dfas, bnf[cur].from_rule, states)
    /\ start_nonterminal' = IF start_nonterminal = None THEN bnf[cur].from_rule
                            ELSE start_nonterminal
    /\ cur' = cur + 1
    /\ pc' = IF cur + 1 <= Len(bnf) THEN "rule" ELSE "classify"
    /\ UNCHANGED <<inputVars, dfaVars, rsVars, fpVars, sp, err, grammar>>

\* ------------------------------------------- generate_grammar, lines 223-235

\* The keys of rule_to_dfas in the order .items() and .values() yield them:
\* the order of insertion (the rules' names are distinct).
RuleOrder == [n \in 1..Len(bnf) |-> bnf[n].from_rule]

\* Flattening of a sequence of sequences.
RECURSIVE Flatten(_)
Flatten(ss) == IF ss = <<>> THEN <<>> ELSE Head(ss) \o Flatten(Tail(ss))

\* The DFAState objects in the order the loops over rule_to_dfas visit them.
AllStates(rtd) == Flatten([n \in 1..Len(RuleOrder) |-> rtd[RuleOrder[n]]])

\* Lines 226-235 for the arcs todo of state sid, in the dict's order.
RECURSIVE ClassifyArcs(_, _, _, _, _, _)
ClassifyArcs(rtd, hp, rs, objs, sid, todo) ==
    IF todo = <<>> THEN [heap |-> hp, rs |-> rs, objs |-> objs]
    ELSE LET terminal_or_nonterminal == Head(todo)[1]
             next_dfa == Head(todo)[2]
         IN  IF terminal_or_nonterminal \in DOMAIN rtd
             THEN ClassifyArcs(rtd,
                      [hp EXCEPT ![sid].nonterminal_arcs =
                          Append(@, <<terminal_or_nonterminal, next_dfa>>)],
                      rs, objs, sid, Tail(todo))
             ELSE LET t == make_transition(rs, objs, terminal_or_nonterminal)
                  IN  ClassifyArcs(rtd,
                          [hp EXCEPT ![sid].ilabel_to_plan =
                              DictSet(@, t.key, DFAPlan(next_dfa, <<>>))],
                          t.rs, t.objs, sid, Tail(todo))

\* Lines 224-235 for the states sids.
RECURSIVE ClassifyStates(_, _, _, _, _)
ClassifyStates(rtd, hp, rs, objs, sids) ==
    IF sids = <<>> THEN [heap |-> hp, rs |-> rs, objs |-> objs]
    ELSE LET r == ClassifyArcs(rtd, hp, rs, objs, Head(sids), hp[Head(sids)].arcs)
         IN  ClassifyStates(rtd, r.heap, r.rs, r.objs, Tail(sids))

\* The classifier loop, and the call of _calculate_tree_traversal up to its
\* sorted list of nonterminals (lines 260-263).
Classify ==
    /\ pc = "classify"
    /\ LET r == ClassifyStates(rule_to_dfas, heap, reserved_strings, rs_objs,
                               AllStates(rule_to_dfas))
       IN  /\ heap' = r.heap
           /\ reserved_strings' = r.rs
           /\ rs_objs' = r.objs
    /\ first_plans' = <<>>
    /\ stack' = <<>>
    /\ d' = 1
    /\ pc' = "first"
    /\ UNCHANGED <<inputVars, cur, states, k, i, changes, made, tableVars, sp, err, grammar>>

\* ------------------------------------------------ _calculate_first_plans

\* Line 281 storing an empty dict in place of None.
InProgressAsEmpty == [none |-> FALSE, plans |-> <<>>]

\* first_plans[nonterminal] = None (line 281)
InProgress == [none |-> TRUE, plans |-> <<>>]
\* Line 310 leaving the None of line 281 in place.
CompletedAsNone(plans) == [none |-> TRUE, plans |-> plans]

\* first_plans[nonterminal] = new_first_plans (line 310)
Completed(plans) == [none |-> FALSE, plans |-> plans]

\* nonterminals after nonterminals.sort() (lines 262-263)
Nonterminals == SortedSeq(DOMAIN rule_to_dfas)

\* Entering _calculate_first_plans (lines 279-284): the frame of the call.
\* origin is history: the nonterminal arc each key of new_first_plans came
\* through.
Frame(nonterminal) ==
    [nonterminal |-> nonterminal,
     todo |-> heap[rule_to_dfas[nonterminal][1]].nonterminal_arcs,
     new_first_plans |-> <<>>,
     origin |-> <<>>]

\* Lines 296-304 with the test "check is not None" never true.
ConflictsUnseen(frame, first_plans2) == {}

\* Lines 296-304 for the callee's completed plans: the keys already taken.
Conflicts(frame, first_plans2) == DOMAIN first_plans2 \cap DOMAIN frame.new_first_plans

\* The ValueError of lines 299-303 for transition t: the rule, the
\* transition and the two rules its message names.  earlier is history: the
\* nonterminal arc the plan already present came through.
AmbiguityError(frame, t) ==
    LET check == frame.new_first_plans[t]
    IN  [kind |-> "ambiguous", rule |-> frame.nonterminal, t |-> t,
         rule1 |-> Head(frame.todo)[1],
         rule2 |-> heap[check[Len(check)]].from_rule,
         earlier |-> frame.origin[t]]

\* The ValueError of line 294 with nonterminal2 in the message.
LeftRecursionErrorOfCallee(frame) ==
    [kind |-> "left recursion", rule |-> Head(frame.todo)[1],
     reentered |-> Head(frame.todo)[1]]

\* The ValueError of line 294: the rule its message names.  reentered is
\* history: the rule whose None was read.
LeftRecursionError(frame) ==
    [kind |-> "left recursion", rule |-> frame.nonterminal,
     reentered |-> Head(frame.todo)[1]]

\* Lines 296-304 without a conflict, storing pushes without next_ in front.
MergedUnpushed(frame, first_plans2) ==
    [frame EXCEPT
        !.new_first_plans =
            [t \in DOMAIN @ \cup DOMAIN first_plans2 |->
                IF t \in DOMAIN first_plans2 THEN first_plans2[t] ELSE @[t]],
        !.origin =
            [t \in DOMAIN @ \cup DOMAIN first_plans2 |->
                IF t \in DOMAIN first_plans2 THEN Head(frame.todo)[1] ELSE @[t]],
        !.todo = Tail(@)]

\* Lines 296-304 without a conflict: new_first_plans[t] = [next_] + pushes.
Merged(frame, first_plans2) ==
    [frame EXCEPT
        !.new_first_plans =
            [t \in DOMAIN @ \cup DOMAIN first_plans2 |->
                IF t \in DOMAIN first_plans2
                THEN <<Head(frame.todo)[2]>> \o first_plans2[t]
                ELSE @[t]],
        !.origin =
            [t \in DOMAIN @ \cup DOMAIN first_plans2 |->
                IF t \in DOMAIN first_plans2 THEN Head(frame.todo)[1] ELSE @[t]],
        !.todo = Tail(@)]

\* Lines 306-308: the direct transitions of the entry state.
WithDirect(frame) ==
    LET plans == heap[rule_to_dfas[frame.nonterminal][1]].ilabel_to_plan
    IN  [t \in DOMAIN frame.new_first_plans \cup DOMAIN plans |->
            IF t \in DOMAIN plans THEN <<plans[t].next_dfa>>
            ELSE frame.new_first_plans[t]]

\* The driver loop of _calculate_tree_traversal (lines 264-266).
DriverNext ==
    /\ pc = "first"
    /\ stack = <<>>
    /\ d <= Len(Nonterminals)
    /\ LET nonterminal == Nonterminals[d]
       IN  IF nonterminal \notin DOMAIN first_plans
           THEN /\ first_plans' = DictSet(first_plans, nonterminal, InProgress)
                /\ stack' = <<Frame(nonterminal)>>
           ELSE UNCHANGED <<first_plans, stack>>
    /\ d' = d + 1
    /\ UNCHANGED <<inputVars, pc, cur, dfaVars, tableVars, rsVars, sp, err, grammar>>

\* One turn of "for nonterminal2, next_ in state.nonterminal_arcs.items()"
\* up to the lookup's outcome (lines 285-304): a recursive call, the
\* left-recursion error, or the merge of plans already memoized.
FirstPlansArc ==
    /\ pc = "first"
    /\ stack # <<>>
    /\ LET frame == stack[Len(stack)]
       IN  /\ frame.todo # <<>>
           /\ LET nonterminal2 == Head(frame.todo)[1]
              IN  IF nonterminal2 \notin DOMAIN first_plans
                  THEN /\ first_plans' = DictSet(first_plans, nonterminal2, InProgress)
                       /\ stack' = Append(stack, Frame(nonterminal2))
                       /\ UNCHANGED <<pc, err>>
                  ELSE IF first_plans[nonterminal2].none
                  THEN /\ err' = LeftRecursionError(frame)
                       /\ pc' = "error"
                       /\ UNCHANGED <<first_plans, stack>>
                  ELSE LET first_plans2 == first_plans[nonterminal2].plans
                       IN  IF Conflicts(frame, first_plans2) # {}
                           THEN /\ \E t \in Conflicts(frame, first_plans2) :
                                      err' = AmbiguityError(frame, t)
                                /\ pc' = "error"
                                /\ UNCHANGED <<first_plans, stack>>
                           ELSE /\ stack' = [stack EXCEPT ![Len(stack)] =
                                                Merged(frame, first_plans2)]
                                /\ UNCHANGED <<first_plans, pc, err>>
    /\ UNCHANGED <<inputVars, cur, dfaVars, tableVars, rsVars, d, sp, grammar>>

\* The end of a call (lines 306-311) and, in the caller, the merge of the
\* plans it returns (lines 296-304).
FirstPlansReturn ==
    /\ pc = "first"
    /\ stack # <<>>
    /\ LET frame == stack[Len(stack)]
           new_first_plans == WithDirect(frame)
       IN  /\ frame.todo = <<>>
           /\ first_plans' = DictSet(first_plans, frame.nonterminal,
                                     Completed(new_first_plans))
           /\ IF Len(stack) = 1
              THEN /\ stack' = <<>>
                   /\ UNCHANGED <<pc, err>>
              ELSE LET caller == stack[Len(stack) - 1]
                   IN  IF Conflicts(caller, new_first_plans) # {}
                       THEN /\ \E t \in Conflicts(caller, new_first_plans) :
                                  err' = AmbiguityError(caller, t)
                            /\ pc' = "error"
                            /\ stack' = SubSeq(stack, 1, Len(stack) - 1)
                       ELSE /\ stack' = [SubSeq(stack, 1, Len(stack) - 1)
                                           EXCEPT ![Len(stack) - 1] =
                                               Merged(caller, new_first_plans)]
                            /\ UNCHANGED <<pc, err>>
    /\ UNCHANGED <<inputVars, cur, dfaVars, tableVars, rsVars, d, sp, grammar>>

\* ------------------------------- _calculate_tree_traversal, lines 271-275

\* The loop of lines 264-266 has ended without an error.
FirstPassOver == pc = "first" /\ stack = <<>> /\ d > Len(Nonterminals)

\* The (state, nonterminal arc) pairs in the order lines 271-273 visit them.
SecondPassWork ==
    LET sids == AllStates(rule_to_dfas)
    IN  Flatten([s \in 1..Len(sids) |->
                    [n \in 1..Len(heap[sids[s]].nonterminal_arcs) |-> <<sids[s], n>>]])

\* Lines 274-275 for one nonterminal arc of one state.
ExpandArc(state, nonterminal, next_dfa) ==
    LET plans == first_plans[nonterminal].plans
    IN  [state EXCEPT !.ilabel_to_plan =
            [t \in DOMAIN @ \cup DOMAIN plans |->
                IF t \in DOMAIN plans THEN DFAPlan(next_dfa, plans[t]) ELSE @[t]]]

SecondPassStep ==
    /\ pc = "second" \/ FirstPassOver
    /\ sp < Len(SecondPassWork)
    /\ LET sid == SecondPassWork[sp + 1][1]
           arc == heap[sid].nonterminal_arcs[SecondPassWork[sp + 1][2]]
       IN  heap' = [heap EXCEPT ![sid] = ExpandArc(@, arc[1], arc[2])]
    /\ sp' = sp + 1
    /\ pc' = "second"
    /\ UNCHANGED <<inputVars, cur, states, k, i, changes, made, tableVars, rsVars, fpVars,
                   err, grammar>>

\* Grammar.__init__
Grammar(start, rtd, rs) ==
    [returned |-> TRUE, start_nonterminal |-> start,
     nonterminal_to_dfas |-> rtd, reserved_syntax_strings |-> rs]

\* generate_grammar returns (line 238).
Return ==
    /\ pc = "second" \/ FirstPassOver
    /\ sp = Len(SecondPassWork)
    /\ grammar' = Grammar(start_nonterminal, rule_to_dfas, reserved_strings)
    /\ pc' = "done"
    /\ UNCHANGED <<inputVars, cur, dfaVars, tableVars, rsVars, fpVars, sp, err>>

Next ==
    \/ MakeDfasBegin
    \/ MakeDfasStep
    \/ MakeDfasReturn
    \/ SimplifyPass
    \/ SimplifyStep
    \/ SimplifyReturn
    \/ Classify
    \/ DriverNext
    \/ FirstPlansArc
    \/ FirstPlansReturn
    \/ SecondPassStep
    \/ Return

\* ----------------------------------------------------------------- inputs

\* The NFA states of the single-rule grammars.
NfaStates == {1, 2, 3}

\* An NFA of rule from_rule: start state 1, final state finish.
Nfa(from_rule, finish, arcs) == [from_rule |-> from_rule, finish |-> finish, arcs |-> arcs]

\* The sets of at most n arcs over the arcs universe.
RECURSIVE ArcSets(_, _)
ArcSets(universe, n) ==
    IF n = 0 THEN {{}}
    ELSE LET less == ArcSets(universe, n - 1)
         IN  less \cup {S \cup {a} : S \in less, a \in universe}

DfaLabels == {RuleA, LitX, TokN, None}

\* Single-rule grammars: rule a with any NFA of at most MaxArcs arcs.
InitDfa ==
    \E arcs \in ArcSets(NfaStates \X DfaLabels \X NfaStates, MaxArcs) :
        Start(<<Nfa(RuleA, 3, arcs)>>)

SpecDfa == InitDfa /\ [][Next]_vars

\* Single-rule grammars of at most MaxFairArcs arcs, the interpreter going
\* on executing while a step is left.
InitDfaFair ==
    \E arcs \in ArcSets(NfaStates \X DfaLabels \X NfaStates, MaxFairArcs) :
        Start(<<Nfa(RuleA, 3, arcs)>>)

SpecDfaFair == InitDfaFair /\ [][Next]_vars /\ WF_vars(Next)

\* The rules' names in the order of the grammar text; a grammar of n rules
\* has the first n.
RuleNames == <<RuleB, RuleA, RuleC>>
Terminals == {LitX, LitXd, LitY}

\* The sets of exactly n arcs over the arcs universe.
ArcSetsOf(universe, n) == {S \in ArcSets(universe, n) : Cardinality(S) = n}

\* The arcs a rule's NFA may have in a grammar of n rules: from the start
\* state to the final state, or through state 2.
BodyArcs(n) ==
    LET labels == {RuleNames[r] : r \in 1..n} \cup Terminals
    IN  ({1} \X (labels \cup {None}) \X {3}) \cup ({1} \X labels \X {2})
            \cup ({2} \X labels \X {3})

\* Every arc lies on a path from the start state to the final state, and
\* the right-hand side has an item: an arc with a label.
Trim(arcs) ==
    /\ (\E a \in arcs : a[3] = 2) <=> (\E a \in arcs : a[1] = 2)
    /\ \E a \in arcs : a[2] # None

\* The right-hand sides of c arcs in a grammar of n rules; none for c = 0.
Bodies(n, c) ==
    IF c = 0 THEN {{}} ELSE {S \in ArcSetsOf(BodyArcs(n), c) : Trim(S)}

\* Grammars of one to three rules, of at most MaxSize rules and arcs together.
Init ==
    \E n \in 1..3 : \E c1 \in 1..3, c2 \in 0..3, c3 \in 0..3 :
        /\ (c2 = 0) <=> (n < 2)
        /\ (c3 = 0) <=> (n < 3)
        /\ n + c1 + c2 + c3 <= MaxSize
        /\ \E b1 \in Bodies(n, c1), b2 \in Bodies(n, c2), b3 \in Bodies(n, c3) :
              Start(SubSeq(<<Nfa(RuleNames[1], 3, b1), Nfa(RuleNames[2], 3, b2),
                             Nfa(RuleNames[3], 3, b3)>>, 1, n))

Spec == Init /\ [][Next]_vars

\* Four-rule grammars of alternatives: every rule is one item or a choice
\* of two, an item being a rule name or 'x'.
AltNames == <<RuleB, RuleA, RuleD, RuleC>>
AltItems == Range(AltNames) \cup {LitX}
AltBodies == {S \in ArcSets({1} \X AltItems \X {3}, 2) : S # {}}

InitAlt ==
    \E b1 \in AltBodies, b2 \in AltBodies, b3 \in AltBodies, b4 \in AltBodies :
        /\ Cardinality(b1) + Cardinality(b2) + Cardinality(b3) + Cardinality(b4)
               <= MaxAltArcs
        /\ Start(<<Nfa(AltNames[1], 3, b1), Nfa(AltNames[2], 3, b2),
                   Nfa(AltNames[3], 3, b3), Nfa(AltNames[4], 3, b4)>>)

SpecAlt == InitAlt /\ [][Next]_vars

\* generate_grammar is called a second time on the same rules once the
\* first call has returned or raised; run1 keeps what the first call left.
Restart ==
    /\ pc \in {"done", "error"}
    /\ ~run1.ended
    /\ run1' = [ended |-> TRUE, heap |-> heap, rule_to_dfas |-> rule_to_dfas,
                rs_objs |-> rs_objs, grammar |-> grammar, err |-> err]
    /\ pc' = "rule"
    /\ cur' = 1
    /\ heap' = <<>>
    /\ states' = <<>>
    /\ k' = 0
    /\ i' = 0
    /\ changes' = FALSE
    /\ made' = [heap |-> <<>>, dfas |-> <<>>]
    /\ rule_to_dfas' = <<>>
    /\ start_nonterminal' = None
    /\ reserved_strings' = <<>>
    /\ rs_objs' = <<>>
    /\ first_plans' = <<>>
    /\ stack' = <<>>
    /\ d' = 0
    /\ sp' = 0
    /\ err' = NoErr
    /\ grammar' = NoGrammar
    /\ UNCHANGED bnf

NextTwice == Next \/ Restart

\* Grammars of one or two rules, of at most MaxTwiceSize rules and arcs
\* together.
InitTwice ==
    \E n \in 1..2 : \E c1 \in 1..3, c2 \in 0..3 :
        /\ (c2 = 0) <=> (n < 2)
        /\ n + c1 + c2 <= MaxTwiceSize
        /\ \E b1 \in Bodies(n, c1), b2 \in Bodies(n, c2) :
              Start(SubSeq(<<Nfa(RuleNames[1], 3, b1), Nfa(RuleNames[2], 3, b2)>>, 1, n))

SpecTwice == InitTwice /\ [][NextTwice]_vars

\* The NFA of a right-hand side that is a plain sequence of items: item j
\* is an arc from state 2j-1 to state 2j, and an epsilon arc leads from each
\* item's end to the start of the next.
SeqArcs(items) ==
    {<<2 * j - 1, items[j], 2 * j>> : j \in 1..Len(items)}
        \cup {<<2 * j, None, 2 * j + 1>> : j \in 1..(Len(items) - 1)}

SeqItems == {RuleA, LitX, LitXd, LitY, TokN}

\* Grammars of the single rule a, a plain sequence of one to MaxSeq items.
InitSeq ==
    \E n \in 1..MaxSeq : \E items \in [1..n -> SeqItems] :
        Start(<<Nfa(RuleA, 2 * n, SeqArcs(items))>>)

SpecSeq == InitSeq /\ [][Next]_vars

\* ------------------------------------------------------------- properties

\* The label sequences of length at most n that lead from state sid to a
\* final state.
RECURSIVE Lang(_, _, _)
Lang(hp, sid, n) ==
    (IF hp[sid].is_final THEN {<<>>} ELSE {})
        \cup (IF n = 0 THEN {}
              ELSE UNION {{<<arc[1]>> \o w : w \in Lang(hp, arc[2], n - 1)} :
                             arc \in Range(hp[sid].arcs)})

\* C1: while and after _simplify_dfas works on the list _make_dfas returned,
\* the label sequences (up to MaxWord labels) accepted from the state at
\* index 0 are those accepted from index 0 of the list as _make_dfas left it.
C1_MinimizationKeepsLanguage ==
    pc = "simplify" =>
        Lang(heap, states[1], MaxWord) = Lang(made.heap, made.dfas[1], MaxWord)

\* _simplify_dfas is about to return, has merged states, and the automaton
\* accepts a sequence of two labels or more.
C1_Witness ==
    /\ pc = "simplify" /\ i = 0 /\ ~changes
    /\ Len(states) < Len(made.dfas)
    /\ \E w \in Lang(heap, states[1], MaxWord) : Len(w) >= 2

\* The entry state of the rule with NFA nfa: the closure of its start state.
IsEntryOf(sid, nfa) ==
    /\ heap[sid].from_rule = nfa.from_rule
    /\ heap[sid].nfa_set = addclosure(nfa, 1, {})

\* C8: index 0 of a rule's list is the state built from the closure of the
\* rule's NFA start state: in _make_dfas, at every step of _simplify_dfas
\* (where it is the object _make_dfas returned at index 0), in rule_to_dfas
\* and in the Grammar returned.
C8_EntryStateKept ==
    /\ pc \in {"make", "simplify"} =>
          /\ Len(states) >= 1
          /\ IsEntryOf(states[1], bnf[cur])
    /\ pc = "simplify" => states[1] = made.dfas[1]
    /\ \A n \in 1..Len(bnf) :
          bnf[n].from_rule \in DOMAIN rule_to_dfas =>
              /\ Len(rule_to_dfas[bnf[n].from_rule]) >= 1
              /\ IsEntryOf(rule_to_dfas[bnf[n].from_rule][1], bnf[n])
    /\ grammar.returned =>
          \A n \in 1..Len(bnf) :
              IsEntryOf(grammar.nonterminal_to_dfas[bnf[n].from_rule][1], bnf[n])

\* A Grammar is returned whose rule lost a state to a merge with its entry
\* state: the entry state now has an arc to itself that _make_dfas had not
\* given it.
C8_Witness ==
    /\ grammar.returned
    /\ \E n \in 1..Len(bnf) :
          LET entry == grammar.nonterminal_to_dfas[bnf[n].from_rule][1]
          IN  /\ \E arc \in Range(heap[entry].arcs) : arc[2] = entry
              /\ bnf[n].from_rule = bnf[Len(bnf)].from_rule
              /\ \A arc \in Range(made.heap[entry].arcs) : arc[2] # entry

\* The rules called by a nonterminal arc leaving the entry state of rule r.
EntryCalls(r) ==
    {arc[1] : arc \in Range(heap[rule_to_dfas[r][1]].nonterminal_arcs)}

\* The rules reached from the rules S by at most n further such arcs.
RECURSIVE EntryReach(_, _)
EntryReach(S, n) ==
    IF n = 0 THEN S ELSE EntryReach(S \cup UNION {EntryCalls(r) : r \in S}, n - 1)

\* The rules reached from r by one or more nonterminal arcs of entry states.
CalledFirst(r) == EntryReach(EntryCalls(r), Len(bnf))

\* Some rule reaches itself through nonterminal arcs of entry states.
LeftRecursive == \E r \in DOMAIN rule_to_dfas : r \in CalledFirst(r)

\* The classifier loop has run: nonterminal_arcs are set.
Classified == pc \in {"first", "second", "done", "error"}

\* C2: when some rule reaches itself through nonterminal arcs of entry
\* states, the first-plans pass never ends normally, the second pass never
\* runs, no Grammar is returned, and where the compilation has stopped it
\* has stopped with a ValueError raised in the first-plans pass.
C2_LeftRecursionNeverReturns ==
    (Classified /\ LeftRecursive) =>
        /\ ~FirstPassOver
        /\ pc \in {"first", "error"}
        /\ sp = 0
        /\ ~grammar.returned
        /\ pc = "error" => err.kind \in {"left recursion", "ambiguous"}

\* The left-recursion error is raised in a nested call, the driver loop
\* having completed another rule before and having started this time from a
\* rule that is not on a cycle itself.
C2_Witness ==
    /\ pc = "error"
    /\ err.kind = "left recursion"
    /\ Len(stack) >= 2
    /\ d > 2
    /\ stack[1].nonterminal \notin CalledFirst(stack[1].nonterminal)

\* The transition key _make_transition gives a terminal label once the
\* classifier loop has filled reserved_strings.
KeyOf(label) ==
    IF label[1] \in Alpha THEN <<"tok", TokenNamespace[label]>>
    ELSE <<"rs", reserved_strings[literal_eval(label)]>>

\* The keys of the terminal arcs of state sid.
DirectKeys(sid) ==
    {KeyOf(arc[1]) : arc \in {a \in Range(heap[sid].arcs) : a[1] \notin DOMAIN rule_to_dfas}}

\* The keys a complete first-plans computation of rule r holds, following
\* the nonterminal arcs of entry states to depth n.
RECURSIVE FirstKeysTo(_, _)
FirstKeysTo(r, n) ==
    DirectKeys(rule_to_dfas[r][1])
        \cup (IF n = 0 THEN {}
              ELSE UNION {FirstKeysTo(c, n - 1) : c \in EntryCalls(r)})

FirstKeys(r) == FirstKeysTo(r, Len(bnf))

\* The entry state of rule r has two different nonterminal arcs whose
\* callees' first-plans hold a common key.
Ambivalent(r) ==
    \E c1, c2 \in EntryCalls(r) : c1 # c2 /\ FirstKeys(c1) \cap FirstKeys(c2) # {}

\* The call of _calculate_first_plans for rule r has returned.
CallReturned(r) == r \in DOMAIN first_plans /\ ~first_plans[r].none

\* C3: in a grammar without left recursion in which the entry state of some
\* rule has two different nonterminal arcs whose callees' first-plans hold
\* a common key, the first-plans pass never ends normally and no Grammar is
\* returned; the error raised is the ambiguity error, raised for a rule
\* with such arcs, and no call for a rule with such arcs has returned.
C3_AmbiguityRaised ==
    (Classified /\ ~LeftRecursive /\ \E r \in DOMAIN rule_to_dfas : Ambivalent(r)) =>
        /\ ~FirstPassOver
        /\ pc \in {"first", "error"}
        /\ sp = 0
        /\ ~grammar.returned
        /\ \A r \in DOMAIN rule_to_dfas : Ambivalent(r) => ~CallReturned(r)
        /\ pc = "error" => /\ err.kind = "ambiguous"
                           /\ Ambivalent(err.rule)

\* The ambiguity error is raised for one of two rules with such arcs, the
\* call for the other never having started.
C3_Witness ==
    /\ pc = "error"
    /\ err.kind = "ambiguous"
    /\ ~LeftRecursive
    /\ \E r \in DOMAIN rule_to_dfas :
          /\ Ambivalent(r)
          /\ r # err.rule
          /\ r \notin DOMAIN first_plans

\* The statement that the error is raised for every rule with such arcs:
\* where the compilation has stopped, the error names that rule.
C3_RaisedForThatRule ==
    (Classified /\ ~LeftRecursive) =>
        \A r \in DOMAIN rule_to_dfas :
            Ambivalent(r) =>
                /\ ~FirstPassOver
                /\ ~grammar.returned
                /\ pc = "error" => (err.kind = "ambiguous" /\ err.rule = r)

\* The DFAState objects of the rules' lists.
AllSids == Range(AllStates(rule_to_dfas))

\* The entry state of rule r.
Entry(r) == rule_to_dfas[r][1]

\* The states from which a final state is reached on some finite token
\* sequence, every rule called on the way deriving one: n rounds of the
\* least fixpoint.
RECURSIVE ProductiveTo(_)
ProductiveTo(n) ==
    IF n = 0 THEN {}
    ELSE LET P == ProductiveTo(n - 1)
         IN  {s \in AllSids :
                \/ heap[s].is_final
                \/ \E arc \in Range(heap[s].arcs) :
                      /\ arc[2] \in P
                      /\ arc[1] \in DOMAIN rule_to_dfas => Entry(arc[1]) \in P}

Productive == ProductiveTo(Cardinality(AllSids))

\* The states from which a final state is reached on the empty sequence.
RECURSIVE NullableTo(_)
NullableTo(n) ==
    IF n = 0 THEN {}
    ELSE LET P == NullableTo(n - 1)
         IN  {s \in AllSids :
                \/ heap[s].is_final
                \/ \E arc \in Range(heap[s].arcs) :
                      /\ arc[1] \in DOMAIN rule_to_dfas
                      /\ Entry(arc[1]) \in P
                      /\ arc[2] \in P}

Nullable == NullableTo(Cardinality(AllSids))

\* The keys of all terminal arcs.
AllKeys == UNION {DirectKeys(s) : s \in AllSids}

\* The pairs <<s, key>> such that some token sequence derivable from state
\* s on begins with a terminal of that key: n rounds of the least fixpoint.
RECURSIVE BeginsTo(_)
BeginsTo(n) ==
    IF n = 0 THEN {}
    ELSE LET F == BeginsTo(n - 1)
         IN  {p \in AllSids \X AllKeys :
                \E arc \in Range(heap[p[1]].arcs) :
                    IF arc[1] \in DOMAIN rule_to_dfas
                    THEN \/ <<Entry(arc[1]), p[2]>> \in F /\ arc[2] \in Productive
                         \/ Entry(arc[1]) \in Nullable /\ <<arc[2], p[2]>> \in F
                    ELSE p[2] = KeyOf(arc[1]) /\ arc[2] \in Productive}

Begins == BeginsTo(Cardinality(AllSids))

\* C4: in the Grammar returned, the entry state of every rule has an
\* ilabel_to_plan entry for the key of every terminal with which some token
\* sequence derivable from the rule begins.
C4_FirstSetComplete ==
    pc = "done" =>
        \A r \in DOMAIN rule_to_dfas : \A key \in AllKeys :
            <<Entry(r), key>> \in Begins => key \in DOMAIN heap[Entry(r)].ilabel_to_plan

\* pushes is the chain of states pushed when key t is reached through a
\* call of rule c: the targets of the nonterminal arcs followed from entry
\* state to entry state, then the target of a terminal arc of key t.
RECURSIVE ValidChain(_, _, _)
ValidChain(c, pushes, t) ==
    IF Len(pushes) = 1
    THEN \E arc \in Range(heap[Entry(c)].arcs) :
            /\ arc[1] \notin DOMAIN rule_to_dfas
            /\ KeyOf(arc[1]) = t
            /\ arc[2] = pushes[1]
    ELSE \E arc \in Range(heap[Entry(c)].nonterminal_arcs) :
            /\ arc[2] = pushes[1]
            /\ ValidChain(arc[1], Tail(pushes), t)

\* C5: in the Grammar returned, every plan with pushes (the plans the second
\* pass creates) comes from a nonterminal arc of its state: next_dfa is the
\* arc's target, a state of the same rule, and dfa_pushes is a chain of
\* one state or more for the plan's key through the arc's rule.
C5_PushChains ==
    pc = "done" =>
        \A s \in AllSids : \A t \in DOMAIN heap[s].ilabel_to_plan :
            LET p == heap[s].ilabel_to_plan[t]
            IN  p.dfa_pushes # <<>> =>
                    \E arc \in Range(heap[s].nonterminal_arcs) :
                        /\ p.next_dfa = arc[2]
                        /\ p.next_dfa \in Range(rule_to_dfas[heap[s].from_rule])
                        /\ ValidChain(arc[1], p.dfa_pushes, t)

\* A Grammar is returned in which a state that is not an entry state has a
\* plan with two pushes, and an entry state a plan with one.
C5_Witness ==
    /\ pc = "done"
    /\ \E s \in AllSids : \E t \in DOMAIN heap[s].ilabel_to_plan :
          /\ s # Entry(heap[s].from_rule)
          /\ Len(heap[s].ilabel_to_plan[t].dfa_pushes) = 2
    /\ \E s \in AllSids : \E t \in DOMAIN heap[s].ilabel_to_plan :
          /\ s = Entry(heap[s].from_rule)
          /\ Len(heap[s].ilabel_to_plan[t].dfa_pushes) = 1

\* The quoted literals labelling terminal arcs of state s.
Literals(s) ==
    {arc[1] : arc \in {a \in Range(heap[s].arcs) :
                          a[1] \notin DOMAIN rule_to_dfas /\ a[1][1] \notin Alpha}}

\* C6: once the classifier loop has run, every quoted literal on a terminal
\* arc of any state is a key of that state's ilabel_to_plan as the one
\* ReservedString object reserved_strings holds for its decoded value; no
\* other ReservedString object exists or is a key; reserved_strings has
\* exactly the decoded values of those literals; and the Grammar returned
\* holds that table.
C6_ReservedStringsInterned ==
    Classified =>
        /\ \A s \in AllSids : \A label \in Literals(s) :
              /\ literal_eval(label) \in DOMAIN reserved_strings
              /\ <<"rs", reserved_strings[literal_eval(label)]>>
                     \in DOMAIN heap[s].ilabel_to_plan
        /\ \A value \in DOMAIN reserved_strings :
              /\ reserved_strings[value] \in 1..Len(rs_objs)
              /\ rs_objs[reserved_strings[value]] = value
        /\ Len(rs_objs) = Cardinality(DOMAIN reserved_strings)
        /\ \A s \in AllSids : \A key \in DOMAIN heap[s].ilabel_to_plan :
              key[1] = "rs" =>
                  \E value \in DOMAIN reserved_strings : key[2] = reserved_strings[value]
        /\ DOMAIN reserved_strings =
              {literal_eval(label) : label \in UNION {Literals(s) : s \in AllSids}}
        /\ grammar.returned => grammar.reserved_syntax_strings = reserved_strings

\* A Grammar is returned for a grammar with 'x' in one rule, "x" in
\* another and 'y' somewhere: two entries for three literals.
C6_Witness ==
    /\ grammar.returned
    /\ Cardinality(DOMAIN grammar.reserved_syntax_strings) = 2
    /\ \E s1, s2 \in AllSids :
          /\ heap[s1].from_rule # heap[s2].from_rule
          /\ LitX \in Literals(s1)
          /\ LitXd \in Literals(s2)

\* A transition key with a ReservedString object replaced by its value.
KeyValue(key, objs) == IF key[1] = "rs" THEN <<"rs", objs[key[2]]>> ELSE key

\* The index of object sid in a list of objects.
IndexIn(list, sid) == CHOOSE n \in 1..Len(list) : list[n] = sid

\* For every rule, a way to match the indices of its list in the first
\* compilation with the indices of its list in the second.
StateMatchings ==
    {f \in [DOMAIN rule_to_dfas ->
               UNION {Perms(1..Len(rule_to_dfas[r])) : r \in DOMAIN rule_to_dfas}] :
        \A r \in DOMAIN rule_to_dfas :
            /\ Len(f[r]) = Len(rule_to_dfas[r])
            /\ f[r][1] = 1}

\* The state of the second compilation matched with state sid of the first.
Matched(f, sid) ==
    LET r == run1.heap[sid].from_rule
    IN  rule_to_dfas[r][f[r][IndexIn(run1.rule_to_dfas[r], sid)]]

\* Matching f preserves is_final, the keys of ilabel_to_plan and every
\* plan's next_dfa and dfa_pushes.
Preserves(f) ==
    \A r \in DOMAIN rule_to_dfas : \A n \in 1..Len(rule_to_dfas[r]) :
        LET s1 == run1.heap[run1.rule_to_dfas[r][n]]
            s2 == heap[rule_to_dfas[r][f[r][n]]]
        IN  /\ s1.is_final = s2.is_final
            /\ {KeyValue(t, run1.rs_objs) : t \in DOMAIN s1.ilabel_to_plan}
                  = {KeyValue(t, rs_objs) : t \in DOMAIN s2.ilabel_to_plan}
            /\ \A t1 \in DOMAIN s1.ilabel_to_plan, t2 \in DOMAIN s2.ilabel_to_plan :
                  KeyValue(t1, run1.rs_objs) = KeyValue(t2, rs_objs) =>
                      LET p1 == s1.ilabel_to_plan[t1]
                          p2 == s2.ilabel_to_plan[t2]
                      IN  /\ Matched(f, p1.next_dfa) = p2.next_dfa
                          /\ Len(p1.dfa_pushes) = Len(p2.dfa_pushes)
                          /\ \A j \in 1..Len(p1.dfa_pushes) :
                                Matched(f, p1.dfa_pushes[j]) = p2.dfa_pushes[j]

\* Both compilations of the rules have ended.
BothEnded == run1.ended /\ pc \in {"done", "error"}

\* C7: two compilations of the same rules, whatever the orders of
\* iteration in each, both return a Grammar or both raise, and two Grammars
\* returned have the same rules with lists of equal lengths matched, index
\* 0 with index 0, so that is_final, the keys of ilabel_to_plan and every
\* plan's next_dfa and dfa_pushes are preserved.
C7_Deterministic ==
    BothEnded =>
        /\ run1.grammar.returned <=> grammar.returned
        /\ grammar.returned =>
              /\ DOMAIN run1.rule_to_dfas = DOMAIN rule_to_dfas
              /\ \A r \in DOMAIN rule_to_dfas :
                    Len(run1.rule_to_dfas[r]) = Len(rule_to_dfas[r])
              /\ \E f \in StateMatchings : Preserves(f)

\* C9: the ambiguity error names the rule being computed, a key, and two
\* different nonterminals labelling arcs of that rule's entry state whose
\* first-plans both hold the key: the one whose plans were being merged and
\* the one through which the key had come before.
C9_NamesBothOrigins ==
    (pc = "error" /\ err.kind = "ambiguous") =>
        /\ err.rule = stack[Len(stack)].nonterminal
        /\ err.rule1 \in EntryCalls(err.rule)
        /\ err.rule2 \in EntryCalls(err.rule)
        /\ err.rule1 # err.rule2
        /\ err.t \in FirstKeys(err.rule1) \cap FirstKeys(err.rule2)
        /\ err.rule2 = err.earlier

\* C10: the left-recursion error is raised by the call that read None for
\* a rule its entry state calls, and names the rule of that call: a rule
\* that reaches itself through nonterminal arcs of entry states, with the
\* rule whose None was read still on the call stack; the rule named is the
\* rule whose None was read exactly when that rule calls itself.
C10_NamesRuleOfTheCall ==
    (pc = "error" /\ err.kind = "left recursion") =>
        /\ err.rule = stack[Len(stack)].nonterminal
        /\ err.reentered \in EntryCalls(err.rule)
        /\ first_plans[err.reentered].none
        /\ \E n \in 1..Len(stack) : stack[n].nonterminal = err.reentered
        /\ err.rule \in CalledFirst(err.rule)
        /\ err.rule = err.reentered <=> stack[Len(stack)].nonterminal = err.reentered

\* The error is raised in indirect recursion: by a nested call, for another
\* rule than the one whose None was read.
C10_Witness ==
    /\ pc = "error"
    /\ err.kind = "left recursion"
    /\ Len(stack) >= 2
    /\ err.rule # err.reentered
    /\ stack[1].nonterminal = err.reentered

\* The statement that the error names the rule whose None was read.
C10_NamesReenteredRule ==
    (pc = "error" /\ err.kind = "left recursion") => err.rule = err.reentered

\* The items of the plain sequence the single rule of bnf is.
ItemsOf(nfa) ==
    [j \in 1..(nfa.finish \div 2) |-> CHOOSE l \in SeqItems : <<2 * j - 1, l, 2 * j>> \in nfa.arcs]

\* The single rule is a plain sequence of terminals.
PlainTerminals ==
    /\ Len(bnf) = 1
    /\ \A j \in 1..Len(ItemsOf(bnf[1])) : ItemsOf(bnf[1])[j] # bnf[1].from_rule

\* C11: for a single rule that is a plain sequence of n terminals the
\* compilation never raises, and the Grammar returned has the rule's name as
\* start_nonterminal and that rule only, with a list of n+1 states, none
\* merged away, state j leading by its single arc, labelled with item j, to
\* state j+1, the last state without arcs and the only final one; and
\* reserved_syntax_strings holds the decoded values of the quoted items.
C11_PlainSequenceIsChain ==
    PlainTerminals =>
        /\ pc # "error"
        /\ grammar.returned =>
              LET items == ItemsOf(bnf[1])
                  n == Len(items)
                  dfas == grammar.nonterminal_to_dfas[bnf[1].from_rule]
              IN  /\ grammar.start_nonterminal = bnf[1].from_rule
                  /\ DOMAIN grammar.nonterminal_to_dfas = {bnf[1].from_rule}
                  /\ Len(dfas) = n + 1
                  /\ dfas = made.dfas
                  /\ \A j \in 1..n :
                        /\ heap[dfas[j]].arcs = <<<<items[j], dfas[j + 1]>>>>
                        /\ ~heap[dfas[j]].is_final
                  /\ heap[dfas[n + 1]].arcs = <<>>
                  /\ heap[dfas[n + 1]].is_final
                  /\ \A j1, j2 \in 1..(n + 1) : dfas[j1] = dfas[j2] => j1 = j2
                  /\ DOMAIN grammar.reserved_syntax_strings =
                        {literal_eval(items[j]) : j \in {m \in 1..n : items[m] # TokN}}

\* A Grammar is returned for the rule a: 'x' 'y' N.
C11_Witness ==
    /\ grammar.returned
    /\ Len(bnf) = 1
    /\ bnf[1].arcs = SeqArcs(<<LitX, LitY, TokN>>)
    /\ Cardinality(DOMAIN grammar.reserved_syntax_strings) = 2

\* The keys reachable through an arc: the key of a terminal label, the keys
\* of the first-plans of a rule.
ArcKeys(arc) ==
    IF arc[1] \in DOMAIN rule_to_dfas THEN FirstKeys(arc[1]) ELSE {KeyOf(arc[1])}

\* No state has a key reachable through two different arcs of which one at
\* least is a nonterminal arc.
NoAmbiguity ==
    \A s \in AllSids : \A a1, a2 \in Range(heap[s].arcs) :
        (a1 # a2 /\ a1[1] \in DOMAIN rule_to_dfas) => ArcKeys(a1) \cap ArcKeys(a2) = {}

\* C12: at every step of the second pass no state, entry state or not, has
\* a key reachable through two different arcs (two nonterminal arcs, or a
\* nonterminal arc and a terminal arc), and the step leaves every
\* ilabel_to_plan entry already present as it was.
C12_NoAmbiguityAfterFirstPass ==
    [][(pc' = "second" /\ sp' = sp + 1) =>
          /\ NoAmbiguity
          /\ \A s \in AllSids : \A t \in DOMAIN heap[s].ilabel_to_plan :
                heap'[s].ilabel_to_plan[t] = heap[s].ilabel_to_plan[t]]_vars

\* The label sequences of at most n labels spelled by the paths of the NFA
\* from state s to finish, at most e epsilon arcs being followed in a row.
RECURSIVE NfaWords(_, _, _, _)
NfaWords(nfa, s, n, e) ==
    (IF s = nfa.finish THEN {<<>>} ELSE {})
        \cup UNION {IF a[2] = None
                    THEN (IF e = 0 THEN {} ELSE NfaWords(nfa, a[3], n, e - 1))
                    ELSE (IF n = 0 THEN {}
                          ELSE {<<a[2]>> \o w :
                                  w \in NfaWords(nfa, a[3], n - 1,
                                                 Cardinality(NfaStates) - 1)}) :
                    a \in NfaArcsFrom(nfa, s)}

\* _make_dfas is about to return.
MakeDfasDone == pc = "make" /\ k > Len(states)

\* C13: throughout _make_dfas every state of the list is final exactly when
\* finish is in its nfa_set and has at most one arc per label; and the
\* list returned accepts from index 0 the label sequences (up to MaxWord
\* labels) that the NFA spells from start to finish.
C13_PowersetEquivalent ==
    /\ pc = "make" =>
          \A n \in 1..Len(states) :
              LET state == heap[states[n]]
              IN  /\ state.is_final <=> bnf[cur].finish \in state.nfa_set
                  /\ \A a1, a2 \in 1..Len(state.arcs) :
                        state.arcs[a1][1] = state.arcs[a2][1] => a1 = a2
    /\ MakeDfasDone =>
          Lang(heap, states[1], MaxWord)
              = NfaWords(bnf[cur], 1, MaxWord, Cardinality(NfaStates) - 1)

\* _make_dfas is about to return for an NFA with an epsilon arc and two
\* arcs of one label leaving one state for different states, which spells
\* a sequence of two labels or more.
C13_Witness ==
    /\ MakeDfasDone
    /\ \E a \in bnf[cur].arcs : a[2] = None
    /\ \E a1, a2 \in bnf[cur].arcs :
          a1[1] = a2[1] /\ a1[2] = a2[2] /\ a1[2] # None /\ a1[3] # a2[3]
    /\ \E w \in Lang(heap, states[1], MaxWord) : Len(w) >= 2

\* _simplify_dfas is about to return.
SimplifyDone == pc = "simplify" /\ i = 0 /\ ~changes

\* Every arc of every state of the list leads to a state of the list.
Closed(hp, dfas) ==
    \A n \in 1..Len(dfas) : \A arc \in Range(hp[dfas[n]].arcs) : arc[2] \in Range(dfas)

\* C14: after every turn of _simplify_dfas every arc of a state of the list
\* leads to a state of the list, the list holds no object twice, and when
\* _simplify_dfas returns no two states of the list are equal under
\* DFAState.__eq__ in either direction.
C14_SimplifiedIsFixedPoint ==
    pc = "simplify" =>
        /\ Closed(heap, states)
        /\ \A n, m \in 1..Len(states) : states[n] = states[m] => n = m
        /\ SimplifyDone =>
              \A n, m \in 1..Len(states) :
                  n # m => ~DFAStateEq(heap[states[n]], heap[states[m]])

\* _simplify_dfas is about to return a list from which it has deleted two
\* states, one at least being the target of an arc that was retargeted.
C14_Witness ==
    /\ SimplifyDone
    /\ Len(states) + 2 <= Len(made.dfas)
    /\ \E n \in 1..Len(states) : \E a \in 1..Len(heap[states[n]].arcs) :
          /\ made.heap[states[n]].arcs[a][2] \notin Range(states)
          /\ heap[states[n]].arcs[a][2] \in Range(states)

\* The second pass can start, is running or has run.
SecondPassReached == FirstPassOver \/ pc \in {"second", "done"}

\* Every rule named by a nonterminal arc of any state has completed plans.
MemoReady ==
    \A s \in AllSids : \A arc \in Range(heap[s].nonterminal_arcs) : CallReturned(arc[1])

\* The rules with a call of _calculate_first_plans running, outermost first.
Running == [n \in 1..Len(stack) |-> stack[n].nonterminal]

\* C15: in every step of a compilation a rule's entry of first_plans stays
\* once present, becomes None only from absent, becomes completed only
\* from None, and once completed keeps its value; a call of
\* _calculate_first_plans starts only for a rule absent from first_plans,
\* so that the running calls are for different rules, which are the rules
\* holding None; and once the second pass is reached every rule named by a
\* nonterminal arc of any state has a completed entry.
C15_MemoMonotone ==
    [][/\ \A r \in DOMAIN first_plans :
             /\ r \in DOMAIN first_plans'
             /\ ~first_plans[r].none => first_plans'[r] = first_plans[r]
       /\ \A r \in DOMAIN first_plans' :
             r \notin DOMAIN first_plans => first_plans'[r] = InProgress
       /\ Len(stack') > Len(stack) =>
             /\ Len(stack') = Len(stack) + 1
             /\ stack'[Len(stack')].nonterminal \notin DOMAIN first_plans
       /\ \A n, m \in 1..Len(stack') : Running'[n] = Running'[m] => n = m
       /\ pc' = "first" =>
             {r \in DOMAIN first_plans' : first_plans'[r].none} = Range(Running')
       /\ SecondPassReached' => MemoReady']_vars

\* The second pass runs for three rules, one of which has a nonterminal arc
\* leaving a state that is not its entry state.
C15_Witness ==
    /\ pc = "second"
    /\ Len(bnf) >= 3
    /\ Cardinality(DOMAIN first_plans) = Len(bnf)
    /\ MemoReady
    /\ \E s \in AllSids :
          s # Entry(heap[s].from_rule) /\ heap[s].nonterminal_arcs # <<>>

\* The ilabel_to_plan of state s is as the classifier loop leaves it: the
\* keys of its terminal arcs, each with the target of such an arc and no
\* pushes.
OnlyDirectPlans(s) ==
    /\ DOMAIN heap[s].ilabel_to_plan = DirectKeys(s)
    /\ \A t \in DOMAIN heap[s].ilabel_to_plan :
          /\ heap[s].ilabel_to_plan[t].dfa_pushes = <<>>
          /\ \E arc \in Range(heap[s].arcs) :
                /\ arc[1] \notin DOMAIN rule_to_dfas
                /\ KeyOf(arc[1]) = t
                /\ arc[2] = heap[s].ilabel_to_plan[t].next_dfa

\* C16: when the compilation has stopped with an error, the error is the
\* left-recursion or the ambiguity error, the second pass has not taken a
\* step, no Grammar has been returned, and the ilabel_to_plan of every
\* state is as the classifier loop left it; and no Grammar is ever returned
\* with an error raised.
C16_ErrorsBeforeSecondPass ==
    /\ pc = "error" =>
          /\ err.kind \in {"left recursion", "ambiguous"}
          /\ sp = 0
          /\ ~grammar.returned
          /\ \A s \in AllSids : OnlyDirectPlans(s)
    /\ grammar.returned => err = NoErr
    /\ err # NoErr => pc = "error"

\* The ambiguity error is raised in a grammar in which the classifier loop
\* has written plans and a state has a nonterminal arc to a rule whose plans
\* are completed: the second pass would have a plan to write.
C16_Witness ==
    /\ pc = "error"
    /\ err.kind = "ambiguous"
    /\ \E s \in AllSids : heap[s].ilabel_to_plan # <<>>
    /\ \E s \in AllSids : \E arc \in Range(heap[s].nonterminal_arcs) :
          CallReturned(arc[1]) /\ first_plans[arc[1]].plans # <<>>

\* C17: a turn of _simplify_dfas that finds state_i equal to a later state
\* takes exactly one state off the list, any other step of _simplify_dfas
\* leaves the list and the states as they are, the list never becomes
\* empty (the merges are fewer than the states _make_dfas returned), and
\* _simplify_dfas, once started, returns.
C17_SimplifyTerminates ==
    /\ [][(pc = "simplify" /\ pc' = "simplify") =>
             /\ Len(states') >= 1
             /\ IF i >= 1 /\ FirstEqual(heap, states, i) # 0
                THEN /\ Len(states') = Len(states) - 1
                     /\ Range(states') \subseteq Range(states)
                     /\ changes'
                ELSE /\ states' = states
                     /\ heap' = heap]_vars
    /\ (pc = "simplify") ~> (pc # "simplify")

\* _simplify_dfas is about to return, a merge done, with a state of the
\* list that has an arc to itself.
C17_Witness ==
    /\ SimplifyDone
    /\ Len(made.dfas) - Len(states) >= 1
    /\ \E n \in 1..Len(states) : \E arc \in Range(heap[states[n]].arcs) :
          arc[2] = states[n]


\* The states line 141 adds while the closures of the NFA states starts are
\* put into one empty set.
ClosureVisits(nfa, starts) ==
    AddClosureVisitsAll(nfa, starts, [set |-> {}, visited |-> <<>>]).visited

\* The NFA states the arcs of nfa under label lead to from nfa_set.
LabelStarts(nfa, nfa_set, label) ==
    {a[3] : a \in {x \in nfa.arcs : x[1] \in nfa_set /\ x[2] = label}}

NoRepeat(seq) == \A m, n \in 1..Len(seq) : seq[m] = seq[n] => m = n

\* Some state of nfa is reached from itself by one or more arcs whose
\* labels are all None (eps) or all not None (~eps).
RECURSIVE ReachBy(_, _, _, _)
ReachBy(nfa, eps, from, n) ==
    IF n = 0 THEN from
    ELSE ReachBy(nfa, eps,
                 from \cup {a[3] : a \in {x \in nfa.arcs :
                                 x[1] \in from /\ ((x[2] = None) <=> eps)}},
                 n - 1)
HasCycle(nfa, eps) ==
    \E s \in NfaStates :
       s \in ReachBy(nfa, eps,
                     {a[3] : a \in {x \in nfa.arcs : x[1] = s /\ ((x[2] = None) <=> eps)}},
                     Cardinality(NfaStates))

\* C18: _make_dfas, once started, returns; while it runs and in the list it
\* returns no two states have equal nfa_set; a turn of its loop only
\* appends to the list, and only states whose nfa_set no state of the list
\* had; and each closure (of start, and of the targets of every label of
\* every state) adds an NFA state to its set at most once and adds exactly
\* the nfa_set of the state the arc leads to.
C18_MakeDfasTerminates ==
    /\ [](pc = "make" =>
            /\ \A m, n \in 1..Len(states) :
                  heap[states[m]].nfa_set = heap[states[n]].nfa_set => m = n
            /\ NoRepeat(ClosureVisits(bnf[cur], {1}))
            /\ Range(ClosureVisits(bnf[cur], {1})) = heap[states[1]].nfa_set
            /\ \A n \in 1..Len(states) : \A arc \in Range(heap[states[n]].arcs) :
                  LET visits == ClosureVisits(bnf[cur],
                                    LabelStarts(bnf[cur], heap[states[n]].nfa_set, arc[1]))
                  IN  /\ NoRepeat(visits)
                      /\ Range(visits) = heap[arc[2]].nfa_set
                      /\ arc[2] \in Range(states))
    /\ [][(pc = "make" /\ pc' = "make") =>
             /\ Len(states') >= Len(states)
             /\ SubSeq(states', 1, Len(states)) = states
             /\ \A n \in (Len(states) + 1)..Len(states') : \A m \in 1..Len(states) :
                   heap'[states'[n]].nfa_set # heap[states[m]].nfa_set]_vars
    /\ (pc = "make") ~> (pc # "make")

\* _make_dfas is about to return for an NFA with a cycle of epsilon arcs
\* and a cycle of labelled arcs, a state of the list reused as the target
\* of an arc.
C18_Witness ==
    /\ MakeDfasDone
    /\ HasCycle(bnf[cur], TRUE)
    /\ HasCycle(bnf[cur], FALSE)
    /\ \E n \in 1..Len(states) : \E arc \in Range(heap[states[n]].arcs) :
          IndexIn(states, arc[2]) <= n


\* The arc is in nonterminal_arcs of state sid, under its label, once.
InNonterminalArcs(sid, arc) ==
    Cardinality({n \in 1..Len(heap[sid].nonterminal_arcs) :
                    heap[sid].nonterminal_arcs[n][1] = arc[1]}) = 1
        /\ arc \in Range(heap[sid].nonterminal_arcs)

\* The arc of state sid has its plan in ilabel_to_plan: next_dfa the arc's
\* target and no pushes, under the key of the arc's label.
InPlans(sid, arc) ==
    /\ KeyOf(arc[1]) \in DOMAIN heap[sid].ilabel_to_plan
    /\ heap[sid].ilabel_to_plan[KeyOf(arc[1])] = DFAPlan(arc[2], <<>>)

\* The classifier loop has run and the second pass has changed nothing yet.
ClassifierLeft == pc \in {"first", "error"}

\* C19: from the end of the classifier loop until the second pass, every
\* arc of every state whose label is a rule name is in nonterminal_arcs
\* under that label with its target and in no plan, every other arc has
\* the plan (next_dfa = target, no pushes) under the key of its label and
\* is not in nonterminal_arcs, and nothing else is recorded; and no step
\* from the classifier loop on changes the rule table, the lists, or the
\* arcs of any state.
C19_ClassifierPartitions ==
    /\ [](ClassifierLeft =>
            \A s \in AllSids :
               /\ \A arc \in Range(heap[s].arcs) :
                     IF arc[1] \in DOMAIN rule_to_dfas
                     THEN InNonterminalArcs(s, arc)
                     ELSE /\ InPlans(s, arc)
                          /\ \A e \in Range(heap[s].nonterminal_arcs) : e[1] # arc[1]
               /\ Range(heap[s].nonterminal_arcs) \subseteq Range(heap[s].arcs)
               /\ DOMAIN heap[s].ilabel_to_plan = DirectKeys(s))
    /\ [][(pc \in {"classify", "first", "second"}) =>
             /\ rule_to_dfas' = rule_to_dfas
             /\ DOMAIN heap' = DOMAIN heap
             /\ \A s \in DOMAIN heap :
                   /\ heap'[s].arcs = heap[s].arcs
                   /\ heap'[s].from_rule = heap[s].from_rule
                   /\ heap'[s].is_final = heap[s].is_final]_vars

====
